---------------------------- MODULE Spec2Model ----------------------------
(***************************************************************************)
(* A model of arcaflow-plugin-rtla: StartTimerlatStep.run_timerlat and its *)
(* signal handler cancel_step (src/arcaflow_plugin_rtla/rtla_plugin.py),   *)
(* with the two child processes and the host's cancel thread as the        *)
(* environment.                                                            *)
(*                                                                         *)
(* Text is modelled character by character: a Python str is a sequence of  *)
(* one-character strings, so that split(), splitlines(), isdigit(), int(), *)
(* float(), slicing and startswith() are computed, not assumed.            *)
(*                                                                         *)
(* run_timerlat reads its request through the attributes duration,         *)
(* user_threads, enable_time_series, cpus and time_series_resolution; the  *)
(* request is modelled as the record of exactly those attributes.          *)
(***************************************************************************)
EXTENDS Integers, Sequences, FiniteSets

VARIABLES
    params,             \* the request, immutable after construction
    env,                \* what the processes outside the plugin will do
    pc,                 \* position of run_timerlat's control flow
    exc,                \* the exception that left run_timerlat, or "none"
    finished_early,     \* self.finished_early
    exit_set,           \* the flag of the Event self.exit
    cancel_pc,          \* position of the cancel_step handler thread
    cancel_at,          \* where run_timerlat stood when cancel_step began, or "never"
    timerlat_proc,      \* state of the measurement subprocess
    timeseries_proc,    \* state of the `cat trace_pipe` subprocess
    timeseries_file,    \* state of ./timeseries_file as this invocation holds it
    wait_time,          \* local wait_time of the poll loop, in tenths of a second
    trace_file_exists,  \* local trace_file_exists
    wake,               \* what ended self.exit.wait: "none", "set", "timeout", "kbd"
    events,             \* the operations on processes and files, in program order
    timerlat_output,    \* stdout captured by communicate()
    parsed,             \* locals of the report parser after Phase 3
    ts,                 \* locals of the time series parser
    outcome,            \* the returned (output_id, output_data)
    timerlat_cmd        \* the command line of the measurement subprocess

vars == <<params, env, pc, exc, finished_early, exit_set, cancel_pc, cancel_at,
          timerlat_proc,
          timeseries_proc, timeseries_file, wait_time, trace_file_exists, wake,
          events, timerlat_output, parsed, ts, outcome,
          timerlat_cmd>>

-----------------------------------------------------------------------------
(* Python values *)

\* Optional[int]: None, or an int
None == [isNone |-> TRUE, v |-> 0]
Some(n) == [isNone |-> FALSE, v |-> n]

\* bool(x) of an Optional[int]: None and 0 are falsy
Truthy(o) == ~o.isNone /\ o.v # 0

Min2(a, b) == IF a < b THEN a ELSE b

-----------------------------------------------------------------------------
(* str methods *)

Digits == {"0", "1", "2", "3", "4", "5", "6", "7", "8", "9"}
UpperAlpha == <<"A","B","C","D","E","F","G","H","I","J","K","L","M",
                "N","O","P","Q","R","S","T","U","V","W","X","Y","Z">>
LowerAlpha == <<"a","b","c","d","e","f","g","h","i","j","k","l","m",
                "n","o","p","q","r","s","t","u","v","w","x","y","z">>
Letters == {UpperAlpha[i] : i \in 1..26} \cup {LowerAlpha[i] : i \in 1..26}

\* str.isspace() of one character
IsSpace(c) == c \in {" ", "\n", "\t"}

\* the regex class \w
IsWordChar(c) == c \in Letters \cup Digits \cup {"_"}

DigitVal(c) ==
    CASE c = "0" -> 0 [] c = "1" -> 1 [] c = "2" -> 2 [] c = "3" -> 3
      [] c = "4" -> 4 [] c = "5" -> 5 [] c = "6" -> 6 [] c = "7" -> 7
      [] c = "8" -> 8 [] c = "9" -> 9

DigitChar(d) == <<"0", "1", "2", "3", "4", "5", "6", "7", "8", "9">>[d + 1]

\* s.lower()
LowerChar(c) ==
    IF \E i \in 1..26 : UpperAlpha[i] = c
    THEN LowerAlpha[CHOOSE i \in 1..26 : UpperAlpha[i] = c]
    ELSE c
Lower(s) == [i \in 1..Len(s) |-> LowerChar(s[i])]

\* s.startswith(p)
StartsWith(s, p) == Len(s) >= Len(p) /\ SubSeq(s, 1, Len(p)) = p

\* s[:-1]
DropLast(s) == SubSeq(s, 1, Len(s) - 1)

\* s[1:-1]
DropFirstLast(s) == SubSeq(s, 2, Len(s) - 1)

\* s.isdigit()
IsDigit(s) == Len(s) > 0 /\ \A i \in 1..Len(s) : s[i] \in Digits

RECURSIVE NatVal(_)
NatVal(s) == IF Len(s) = 0 THEN 0
             ELSE 10 * NatVal(DropLast(s)) + DigitVal(s[Len(s)])

\* int(s) succeeds: an optional sign and at least one digit
IntOk(s) ==
    IF Len(s) > 0 /\ s[1] \in {"+", "-"} THEN IsDigit(Tail(s)) ELSE IsDigit(s)

\* int(s), where IntOk(s)
IntVal(s) ==
    IF s[1] = "-" THEN 0 - NatVal(Tail(s))
    ELSE IF s[1] = "+" THEN NatVal(Tail(s))
    ELSE NatVal(s)

RECURSIVE NatStr(_)
NatStr(n) == IF n < 10 THEN <<DigitChar(n)>>
             ELSE NatStr(n \div 10) \o <<DigitChar(n % 10)>>

\* str(n) of an int
IntStr(n) == IF n < 0 THEN <<"-">> \o NatStr(0 - n) ELSE NatStr(n)

\* the k-th smallest element of a set of integers
Nth(S, k) == CHOOSE i \in S : Cardinality({j \in S : j <= i}) = k

\* s.split(): the maximal runs of non-whitespace characters
Split(s) ==
    LET starts == {i \in 1..Len(s) : ~IsSpace(s[i]) /\ (i = 1 \/ IsSpace(s[i - 1]))}
        ends == {i \in 1..Len(s) : ~IsSpace(s[i]) /\ (i = Len(s) \/ IsSpace(s[i + 1]))}
    IN  [k \in 1..Cardinality(starts) |-> SubSeq(s, Nth(starts, k), Nth(ends, k))]

\* s.splitlines(), and the lines a text file yields when iterated (without their
\* terminators): a line ends at each "\n"; what follows the last "\n" is a line
\* only if it is not empty
SplitLines(s) ==
    LET nl == {i \in 1..Len(s) : s[i] = "\n"}
        n == Cardinality(nl) + (IF Len(s) > 0 /\ s[Len(s)] # "\n" THEN 1 ELSE 0)
        first(k) == IF k = 1 THEN 1 ELSE Nth(nl, k - 1) + 1
        last(k) == IF k <= Cardinality(nl) THEN Nth(nl, k) - 1 ELSE Len(s)
    IN  [k \in 1..n |-> SubSeq(s, first(k), last(k))]

-----------------------------------------------------------------------------
(* The report parser: run_timerlat lines 162-213 *)

\* a cell of a row: an int, or (the index of a statistics row) a str
IntCell(n) == [isInt |-> TRUE, n |-> n, s |-> <<>>]
StrCell(s) == [isInt |-> FALSE, n |-> 0, s |-> s]

TimeUnitPrefix == <<"#"," ","T","i","m","e"," ","u","n","i","t"," ","i","s"," ">>
IndexWord == <<"I","n","d","e","x">>
AllWord == <<"A","L","L">>

\* the longest prefix of s made of \w characters
RECURSIVE WordPrefix(_)
WordPrefix(s) == IF Len(s) > 0 /\ IsWordChar(s[1])
                 THEN <<s[1]>> \o WordPrefix(Tail(s))
                 ELSE <<>>

\* is_time_unit.match(line), with is_time_unit = r"# Time unit is (\w+)"
TimeUnitMatch(line) ==
    /\ StartsWith(line, TimeUnitPrefix)
    /\ WordPrefix(SubSeq(line, Len(TimeUnitPrefix) + 1, Len(line))) # <<>>

\* is_time_unit.match(line).group(1)
TimeUnitGroup(line) == WordPrefix(SubSeq(line, Len(TimeUnitPrefix) + 1, Len(line)))

\* Phase 1, from line i on: the time unit, the column headers and the index of
\* the first line the loop has not consumed
RECURSIVE Phase1(_, _, _)
Phase1(lines, i, time_unit) ==
    IF i > Len(lines)
    THEN [time_unit |-> time_unit, col_headers |-> <<>>, next |-> i]
    ELSE IF TimeUnitMatch(lines[i])
         THEN Phase1(lines, i + 1, TimeUnitGroup(lines[i]))
         ELSE IF StartsWith(lines[i], IndexWord)
              THEN [time_unit |-> time_unit,
                    col_headers |-> Split(Lower(lines[i])),
                    next |-> i + 1]
              ELSE Phase1(lines, i + 1, time_unit)

\* the number of pairs zip(col_headers[1:], map(int, line_list[1:])) yields: int()
\* is applied to no token beyond them
ZipLen(col_headers, line_list) == Min2(Len(col_headers) - 1, Len(line_list) - 1)

\* map(int, ...) raises ValueError while dict(zip(...)) consumes it
RowValueError(col_headers, line_list) ==
    \E j \in 1..ZipLen(col_headers, line_list) : ~IntOk(line_list[j + 1])

\* row_obj | dict(zip(col_headers[1:], map(int, line_list[1:]))): a dict as the
\* function from its keys; of two equal keys the later one's value stays
RowObj(col_headers, line_list, index_cell) ==
    LET m == ZipLen(col_headers, line_list)
        hit(k) == {j \in 1..m : col_headers[j + 1] = k}
        last(k) == CHOOSE j \in hit(k) : \A h \in hit(k) : h <= j
    IN  [k \in {col_headers[1]} \cup {col_headers[j + 1] : j \in 1..m} |->
            IF hit(k) # {} THEN IntCell(IntVal(line_list[last(k) + 1]))
            ELSE index_cell]

\* the cell stored under col_headers[0]: lines 193-200
IndexCell(tok) == IF ~IsDigit(tok) THEN StrCell(DropLast(tok)) ELSE IntCell(IntVal(tok))

\* accumulator = stats_per_col, line 197: once set it is never set back
SwitchAccumulator(in_stats, tok) == in_stats \/ ~IsDigit(tok)

\* a break that leaves the ALL line to the next loop
AfterBreakSameLine(i) == i

\* the break of line 191: the iterator has handed out line i, the loop of
\* Phase 3 goes on with the line after it
AfterBreak(i) == i + 1

\* Phase 2, from line i on; st holds latency_hist, stats_per_col and whether the
\* accumulator is stats_per_col. exc names the exception that ends the parse.
RECURSIVE Phase2(_, _, _, _)
Phase2(lines, i, col_headers, st) ==
    IF i > Len(lines)
    THEN [exc |-> "none", line |-> <<>>, latency_hist |-> st.latency_hist,
          stats_per_col |-> st.stats_per_col, next |-> i]
    ELSE LET line_list == Split(lines[i]) IN
         IF Len(line_list) = 0
         THEN [exc |-> "IndexError", line |-> lines[i], latency_hist |-> st.latency_hist,
               stats_per_col |-> st.stats_per_col, next |-> i]
         ELSE IF StartsWith(line_list[1], AllWord)
         THEN [exc |-> "none", line |-> <<>>, latency_hist |-> st.latency_hist,
               stats_per_col |-> st.stats_per_col, next |-> AfterBreak(i)]
         ELSE IF RowValueError(col_headers, line_list)
         THEN [exc |-> "ValueError", line |-> lines[i], latency_hist |-> st.latency_hist,
               stats_per_col |-> st.stats_per_col, next |-> i]
         ELSE LET in_stats == SwitchAccumulator(st.in_stats, line_list[1])
                  row_obj == RowObj(col_headers, line_list, IndexCell(line_list[1]))
              IN  Phase2(lines, i + 1, col_headers,
                         [in_stats |-> in_stats,
                          latency_hist |-> IF in_stats THEN st.latency_hist
                                           ELSE Append(st.latency_hist, row_obj),
                          stats_per_col |-> IF in_stats THEN Append(st.stats_per_col, row_obj)
                                            ELSE st.stats_per_col])

\* d[key] = value of a dict
DictPut(d, key, value) ==
    [k \in DOMAIN d \cup {key} |-> IF k = key THEN value ELSE d[k]]

EmptyDict == [k \in {} |-> <<>>]

\* the label of a summary line, line 209
SummaryLabel(line_list) == DropLast(line_list[1])

\* the tokens stored in the three aggregates, lines 210-213 (Python's
\* line_list[1], [2], [3] are the 2nd, 3rd and 4th tokens)
ThrTokenIsSecond(line_list) == line_list[2]
IrqToken(line_list) == line_list[2]
ThrToken(line_list) == line_list[3]
UsrToken(line_list) == line_list[4]

\* Phase 3, from line i on; st holds the three dicts
RECURSIVE Phase3(_, _, _, _)
Phase3(lines, i, user_threads, st) ==
    IF i > Len(lines)
    THEN [exc |-> "none", line |-> <<>>, total_irq_latency |-> st.total_irq_latency,
          total_thr_latency |-> st.total_thr_latency,
          total_usr_latency |-> st.total_usr_latency]
    ELSE LET line_list == Split(lines[i]) IN
         IF Len(line_list) < 3 \/ (user_threads /\ Len(line_list) < 4)
         THEN [exc |-> "IndexError", line |-> lines[i],
               total_irq_latency |-> st.total_irq_latency,
               total_thr_latency |-> st.total_thr_latency,
               total_usr_latency |-> st.total_usr_latency]
         ELSE LET label == SummaryLabel(line_list) IN
              Phase3(lines, i + 1, user_threads,
                     [total_irq_latency |->
                          DictPut(st.total_irq_latency, label, IrqToken(line_list)),
                      total_thr_latency |->
                          DictPut(st.total_thr_latency, label, ThrToken(line_list)),
                      total_usr_latency |->
                          IF user_threads
                          THEN DictPut(st.total_usr_latency, label, UsrToken(line_list))
                          ELSE st.total_usr_latency])

\* the locals of lines 162-169
NoReport ==
    [exc |-> "none", line |-> <<>>, time_unit |-> <<>>, col_headers |-> <<>>,
     latency_hist |-> <<>>, stats_per_col |-> <<>>,
     total_irq_latency |-> EmptyDict, total_thr_latency |-> EmptyDict,
     total_usr_latency |-> EmptyDict]

\* lines 162-213 on the captured stdout
ParseReportText(output, user_threads) ==
    LET lines == SplitLines(output)
        p1 == Phase1(lines, 1, <<>>)
        p2 == Phase2(lines, p1.next, p1.col_headers,
                     [in_stats |-> FALSE, latency_hist |-> <<>>, stats_per_col |-> <<>>])
        p3 == Phase3(lines, p2.next, user_threads,
                     [total_irq_latency |-> EmptyDict, total_thr_latency |-> EmptyDict,
                      total_usr_latency |-> EmptyDict])
    IN  IF p2.exc # "none"
        THEN [NoReport EXCEPT !.exc = p2.exc, !.line = p2.line]
        ELSE IF p3.exc # "none"
        THEN [NoReport EXCEPT !.exc = p3.exc, !.line = p3.line]
        ELSE [exc |-> "none", line |-> <<>>, time_unit |-> p1.time_unit,
              col_headers |-> p1.col_headers,
              latency_hist |-> p2.latency_hist, stats_per_col |-> p2.stats_per_col,
              total_irq_latency |-> p3.total_irq_latency,
              total_thr_latency |-> p3.total_thr_latency,
              total_usr_latency |-> p3.total_usr_latency]

(* LatencyStats and latency_stats_schema.unserialize: rtla_schema.py 91-115 *)

Count == <<"c","o","u","n","t">>
MinLabel == <<"m","i","n">>
AvgLabel == <<"a","v","g">>
MaxLabel == <<"m","a","x">>
StatFields == {Count, MinLabel, AvgLabel, MaxLabel}

\* unserialize(d) raises ConstraintException: a key that is no field of
\* LatencyStats, or a value that int() does not accept
UnserializeRaises(d) ==
    \E k \in DOMAIN d : k \notin StatFields \/ ~IntOk(d[k])

\* the LatencyStats record of a dict: a field the dict lacks keeps its default None
StatField(d, k) == IF k \in DOMAIN d THEN Some(IntVal(d[k])) ELSE None
Unserialize(d) ==
    [count |-> StatField(d, Count), min |-> StatField(d, MinLabel),
     avg |-> StatField(d, AvgLabel), max |-> StatField(d, MaxLabel)]

-----------------------------------------------------------------------------
(* The time series parser: run_timerlat lines 226-307 *)

\* Seconds are kept in tenths: the traces of this model print at most one
\* fractional digit, and time_series_resolution is in the same unit.
\* uptime_offset = time.time() - time.monotonic(), line 231, in tenths
UptimeOffset == 1000

\* float(s) succeeds: an optional sign, digits, and an optional point followed by
\* digits (the form the tracer prints; exponents, inf and nan are not modelled)
FloatOk(s) ==
    LET u == IF Len(s) > 0 /\ s[1] \in {"+", "-"} THEN Tail(s) ELSE s
        dots == {i \in 1..Len(u) : u[i] = "."}
    IN  /\ Cardinality(dots) <= 1
        /\ \A i \in 1..Len(u) : u[i] \in Digits \cup {"."}
        /\ \E i \in 1..Len(u) : u[i] \in Digits

\* float(s) in tenths, where FloatOk(s)
FloatTenths(s) ==
    LET neg == s[1] = "-"
        u == IF s[1] \in {"+", "-"} THEN Tail(s) ELSE s
        dots == {i \in 1..Len(u) : u[i] = "."}
        dot == IF dots = {} THEN Len(u) + 1 ELSE CHOOSE i \in dots : TRUE
        whole == NatVal(SubSeq(u, 1, dot - 1))
        frac == IF dot + 1 <= Len(u) THEN DigitVal(u[dot + 1]) ELSE 0
        mag == 10 * whole + frac
    IN  IF neg THEN 0 - mag ELSE mag

\* the local cpu: unbound until a line assigns it
Unbound == [bound |-> FALSE, v |-> 0]
Bound(n) == [bound |-> TRUE, v |-> n]

\* line_list.pop(i)
Pop(l, i) == SubSeq(l, 1, i - 1) \o SubSeq(l, i + 1, Len(l))

\* lines 248-261: only i == 1 does anything; the slice [1:-1] never raises, so
\* the IndexError handler is never entered
CpuOk(line_list) == Len(line_list) >= 2 /\ IntOk(DropFirstLast(line_list[2]))
CpuOf(line_list, cpu) ==
    IF CpuOk(line_list) THEN Bound(IntVal(DropFirstLast(line_list[2]))) ELSE cpu
AfterCpu(line_list) ==
    IF Len(line_list) >= 2 /\ ~CpuOk(line_list) THEN Pop(line_list, 2) ELSE line_list

\* lines 266-282: IndexError or ValueError of the four conversions
UnknownFormat(ll) ==
    \/ Len(ll) < 4
    \/ ~FloatOk(DropLast(ll[4]))
    \/ Len(ll) < 9
    \/ ~IntOk(ll[9])

\* f"cpu{cpu}_{context}", line 289
CpuContext(cpu, context) == <<"c", "p", "u">> \o IntStr(cpu) \o <<"_">> \o context

\* line 286 without its test
CpuSkippedNever(cpus, cpu) == FALSE

\* params.cpus and int(cpu) not in params.cpus, line 286
CpuSkipped(cpus, cpu) == Len(cpus) > 0 /\ \A j \in 1..Len(cpus) : cpus[j] # cpu

(* Python floats are IEEE 754 doubles. A magnitude is kept as the binary digits,
   most significant first and with no leading zero, of its multiple of
   2^-FracBits: every double of this model (a number of tenths, and a
   difference of two of them) is such a multiple and has at most 53
   significant digits. *)
Significand == 53
FracBits == Significand + 7

Zeros(k) == [i \in 1..k |-> 0]

\* b without its leading zeros
Norm(b) ==
    IF \A i \in 1..Len(b) : b[i] = 0 THEN <<>>
    ELSE SubSeq(b, CHOOSE i \in 1..Len(b) : b[i] = 1 /\ \A j \in 1..(i - 1) : b[j] = 0,
                Len(b))

\* b with leading zeros, n digits long
Pad(b, n) == Zeros(n - Len(b)) \o b

\* the binary digits of a non-negative integer below 2^20
NatBits(n) == Norm([i \in 1..20 |-> (n \div 2 ^ (20 - i)) % 2])

\* the carry into digit i of a + b + c, a and b of one length, c the carry into
\* the last digit: some digit to the right makes a carry, or c comes in, and
\* every digit between passes it on
CarryInto(a, b, c, i) ==
    \/ \E j \in (i + 1)..Len(a) :
           a[j] + b[j] = 2 /\ \A k \in (i + 1)..(j - 1) : a[k] + b[k] = 1
    \/ c = 1 /\ \A k \in (i + 1)..Len(a) : a[k] + b[k] >= 1

\* a + b + c for a and b of one length: one digit more than they have
AddCarry(a, b, c) ==
    [i \in 1..(Len(a) + 1) |->
        IF i = 1 THEN (IF CarryInto(a, b, c, 0) THEN 1 ELSE 0)
        ELSE (a[i - 1] + b[i - 1] + (IF CarryInto(a, b, c, i - 1) THEN 1 ELSE 0)) % 2]

Widest(a, b) == IF Len(a) >= Len(b) THEN Len(a) ELSE Len(b)
AddBits(a, b) == Norm(AddCarry(Pad(a, Widest(a, b)), Pad(b, Widest(a, b)), 0))

\* b + 1
Inc(b) == Norm(AddCarry(b, Zeros(Len(b)), 1))

\* a - b where a >= b: a plus the complement of b plus one, the carry dropped
Complement(b) == [i \in 1..Len(b) |-> 1 - b[i]]
SubBits(a, b) == Norm(Tail(AddCarry(a, Complement(Pad(b, Len(a))), 1)))

\* a < b
LessBits(a, b) ==
    \/ Len(a) < Len(b)
    \/ /\ Len(a) = Len(b)
       /\ \E i \in 1..Len(a) : a[i] < b[i] /\ \A j \in 1..(i - 1) : a[j] = b[j]

\* 2^m modulo 10
PowerOfTwoModTen(m) == IF m = 0 THEN 1 ELSE <<2, 4, 8, 6>>[((m - 1) % 4) + 1]

\* n / 10 in binary to FracBits places, by long division: the digits of the
\* whole part, then one digit for each place, the remainder before place m
\* being n * 2^(m-1) modulo 10; and the remainder left at the end
TenthsDigits(n) ==
    LET Rem(m) == ((n % 10) * PowerOfTwoModTen(m)) % 10
    IN  [q |-> Norm(NatBits(n \div 10) \o [m \in 1..FracBits |-> (2 * Rem(m - 1)) \div 10]),
         r |-> Rem(FracBits)]

\* round to nearest, ties to even, at Significand digits; sticky tells that
\* the exact value lies above b
RoundNearestEven(b, sticky) ==
    IF Len(b) <= Significand THEN b
    ELSE LET top == SubSeq(b, 1, Significand)
             guard == b[Significand + 1]
             below == sticky \/ \E i \in (Significand + 2)..Len(b) : b[i] = 1
             up == guard = 1 /\ (below \/ top[Significand] = 1)
         IN  (IF up THEN Inc(top) ELSE top) \o Zeros(Len(b) - Significand)

\* float("w.f") for a number of tenths: the double nearest to tenths / 10
Float(tenths) ==
    LET n == IF tenths < 0 THEN 0 - tenths ELSE tenths
        d == TenthsDigits(n)
    IN  [neg |-> tenths < 0, mag |-> RoundNearestEven(d.q, d.r # 0)]

\* x - y in doubles: the exact difference, rounded
FloatSub(x, y) ==
    IF x.neg # y.neg
    THEN [neg |-> x.neg, mag |-> RoundNearestEven(AddBits(x.mag, y.mag), FALSE)]
    ELSE IF LessBits(x.mag, y.mag)
    THEN [neg |-> ~x.neg, mag |-> RoundNearestEven(SubBits(y.mag, x.mag), FALSE)]
    ELSE [neg |-> x.neg, mag |-> RoundNearestEven(SubBits(x.mag, y.mag), FALSE)]

\* x < y in doubles (a zero of either sign is zero)
FloatLess(x, y) ==
    IF x.mag = <<>> /\ y.mag = <<>> THEN FALSE
    ELSE IF x.mag = <<>> THEN ~y.neg
    ELSE IF y.mag = <<>> THEN x.neg
    ELSE IF x.neg # y.neg THEN x.neg
    ELSE IF x.neg THEN LessBits(y.mag, x.mag)
    ELSE LessBits(x.mag, y.mag)

\* lines 294-297: a last timestamp of 0 is falsy, and the difference is the
\* one of two doubles (1.4 - 0.4 is 0.9999999999999999, less than 1.0)
TooSoon(last, uptimestamp, resolution) ==
    last # 0 /\ FloatLess(FloatSub(Float(uptimestamp), Float(last)), Float(resolution))

\* all(False for _ in timeseries_output), line 235: all() stops at the first
\* False, after the generator has taken one line from the file
FirstLoopLine(lines) == IF Len(lines) = 0 THEN 1 ELSE 2

NoSeries == [exc |-> "none", timeseries_dict |-> EmptyDict,
             last_uptimestamp |-> EmptyDict, cpu |-> Unbound]

\* the loop of line 241, from line i on
RECURSIVE SeriesLoop(_, _, _, _, _)
SeriesLoop(lines, i, cpus, resolution, st) ==
    IF i > Len(lines) THEN st
    ELSE LET line_list == Split(lines[i])
             cpu == CpuOf(line_list, st.cpu)
             ll == AfterCpu(line_list)
         IN
         IF UnknownFormat(ll)
         THEN [st EXCEPT !.timeseries_dict = EmptyDict, !.cpu = cpu]
         ELSE IF ~cpu.bound
         THEN [st EXCEPT !.exc = "UnboundLocalError"]
         ELSE LET uptimestamp == FloatTenths(DropLast(ll[4]))
                  context == ll[7]
                  latency == IntVal(ll[9])
                  key == CpuContext(cpu.v, context)
                  d1 == IF key \in DOMAIN st.timeseries_dict THEN st.timeseries_dict
                        ELSE DictPut(st.timeseries_dict, key, <<>>)
                  l1 == IF key \in DOMAIN st.last_uptimestamp THEN st.last_uptimestamp
                        ELSE DictPut(st.last_uptimestamp, key, 0)
                  point == [timestamp |-> uptimestamp + UptimeOffset,
                            latency_ns |-> latency]
              IN
              IF CpuSkipped(cpus, cpu.v)
              THEN SeriesLoop(lines, i + 1, cpus, resolution, [st EXCEPT !.cpu = cpu])
              ELSE IF TooSoon(l1[key], uptimestamp, resolution)
              THEN SeriesLoop(lines, i + 1, cpus, resolution,
                              [st EXCEPT !.cpu = cpu, !.timeseries_dict = d1,
                                         !.last_uptimestamp = l1])
              ELSE SeriesLoop(lines, i + 1, cpus, resolution,
                              [st EXCEPT !.cpu = cpu,
                                         !.timeseries_dict =
                                             DictPut(d1, key, Append(d1[key], point)),
                                         !.last_uptimestamp =
                                             DictPut(l1, key, uptimestamp)])

\* lines 233-307 on the content of ./timeseries_file
ParseSeriesText(content, cpus, resolution) ==
    LET lines == SplitLines(content)
    IN  SeriesLoop(lines, FirstLoopLine(lines), cpus, resolution, NoSeries)

-----------------------------------------------------------------------------
(* The processes: run_timerlat, cancel_step, the two children *)

SIGINT == 2

\* the poll loop of lines 81-88, in tenths of a second
TimeoutSeconds == 50
SleepTime == 5

(* params_to_flags and TimerlatInputParams.to_flags: rtla_schema.py 8-18, 76-88.
   A token is the sequence of its characters. An Optional[int] is None or
   Some(n); an Optional list is the sequence of its elements, None and [] alike
   the empty one; an Optional[bool] is a boolean, None and False alike FALSE. *)

\* f"-{key}", line 12
FlagToken(key) == <<"-", key>>

\* ",".join(str(i) for i in value), line 14
RECURSIVE CommaJoin(_)
CommaJoin(value) ==
    IF Len(value) = 0 THEN <<>>
    ELSE IF Len(value) = 1 THEN IntStr(value[1])
    ELSE IntStr(value[1]) \o <<",">> \o CommaJoin(Tail(value))

\* one turn of the loop of lines 10-17 for an Optional[int]: `if not value` skips
\* None and 0
IntFlag(key, value) ==
    IF ~Truthy(value) THEN <<>> ELSE <<FlagToken(key), IntStr(value.v)>>

\* one turn of the loop for an Optional list: None and [] are skipped
ListFlag(key, value) ==
    IF Len(value) = 0 THEN <<>> ELSE <<FlagToken(key), CommaJoin(value)>>

\* one turn of the loop for an Optional[bool]: None and False are skipped
BoolFlag(key, value) ==
    IF ~value THEN <<>> ELSE <<FlagToken(key)>>

\* TimerlatInputParams.to_flags, lines 76-88: the keys in the order of the dict
ToFlags(p) ==
    IntFlag("p", p.period) \o ListFlag("c", p.cpus) \o ListFlag("H", p.house_keeping)
    \o IntFlag("d", p.duration) \o BoolFlag("n", p.nano) \o IntFlag("b", p.bucket_size)
    \o IntFlag("E", p.entries) \o BoolFlag("u", p.user_threads)

\* lines 55-56
RtlaPath == <<"/", "u", "s", "r", "/", "b", "i", "n", "/", "r", "t", "l", "a">>
TimerlatWord == <<"t", "i", "m", "e", "r", "l", "a", "t">>
HistWord == <<"h", "i", "s", "t">>
TimerlatCmd(p) == <<RtlaPath, TimerlatWord, HistWord>> \o ToFlags(p)

\* to_flags() puts "-d <duration>" on the command line unless the value is falsy
\* (rtla_schema.py line 11): only then does the tool stop by itself
DurationFlag(p) == Truthy(p.duration)

Event(op, sig) == [op |-> op, sig |-> sig]
Sent(op) == \E i \in 1..Len(events) : events[i].op = op
Pos(op) == CHOOSE i \in 1..Len(events) : events[i].op = op

NoOutcome ==
    [id |-> "none", time_unit |-> <<>>, latency_hist |-> <<>>, stats_per_col |-> <<>>,
     total_irq_latency |-> Unserialize(EmptyDict),
     total_thr_latency |-> Unserialize(EmptyDict),
     total_usr_latency |-> [isNone |-> TRUE, v |-> Unserialize(EmptyDict)],
     latency_timeseries |-> [isNone |-> TRUE, v |-> EmptyDict]]

\* StartTimerlatStep(Event(), False), line 48, and the objects of one invocation
InitWith(Requests, Environments) ==
    /\ params \in Requests
    /\ env \in Environments
    /\ pc = "popen"
    /\ exc = "none"
    /\ finished_early = FALSE
    /\ exit_set = FALSE
    /\ cancel_pc = "idle"
    /\ cancel_at = "never"
    /\ timerlat_proc = "none"
    /\ timeseries_proc = "none"
    /\ timeseries_file = "unopened"
    /\ wait_time = 0
    /\ trace_file_exists = FALSE
    /\ wake = "none"
    /\ events = <<>>
    /\ timerlat_output = <<>>
    /\ parsed = NoReport
    /\ ts = NoSeries
    /\ outcome = NoOutcome
    /\ timerlat_cmd = <<>>

\* cancel_step, line 34
CancelStepFlag ==
    /\ cancel_pc = "idle"
    /\ finished_early' = TRUE
    /\ cancel_pc' = "flagged"
    /\ cancel_at' = pc
    /\ UNCHANGED <<params, env, pc, exc, exit_set, timerlat_proc, timeseries_proc,
                   timeseries_file, wait_time, trace_file_exists, wake, events,
                   timerlat_output, parsed, ts, outcome, timerlat_cmd>>

\* cancel_step, line 36
CancelStepSet ==
    /\ cancel_pc = "flagged"
    /\ exit_set' = TRUE
    /\ cancel_pc' = "returned"
    /\ UNCHANGED <<cancel_at, params, env, pc, exc, finished_early, timerlat_proc, timeseries_proc,
                   timeseries_file, wait_time, trace_file_exists, wake, events,
                   timerlat_output, parsed, ts, outcome, timerlat_cmd>>

\* getattr of line 71: the request class of rtla_schema.py has the field
\* enable_timeseries (line 70) and neither enable_time_series nor
\* time_series_resolution, the attributes run_timerlat reads; a request object
\* that carries them is the only one that gets past line 71
HasAttr(p) == ~p.schema_instance

\* lines 55-71, Popen returns: the child runs, and line 71 reads the request
PopenTimerlat ==
    /\ pc = "popen"
    /\ env.launch # "oserror"
    /\ timerlat_cmd' = TimerlatCmd(params)
    /\ timerlat_proc' = "running"
    /\ IF HasAttr(params)
       THEN /\ pc' = IF params.enable_time_series THEN "poll" ELSE "wait"
            /\ exc' = exc
       ELSE /\ pc' = "raised"
            /\ exc' = "AttributeError"
    /\ UNCHANGED <<params, env, finished_early, exit_set, cancel_pc, cancel_at,
                   timeseries_proc, timeseries_file, wait_time, trace_file_exists,
                   wake, events, timerlat_output, parsed, ts, outcome>>

\* lines 58-69, the executable cannot be started: Popen raises an OSError
\* (FileNotFoundError, PermissionError), which `except CalledProcessError` does
\* not catch; Popen never raises CalledProcessError
PopenTimerlatRaises ==
    /\ pc = "popen"
    /\ env.launch = "oserror"
    /\ timerlat_cmd' = TimerlatCmd(params)
    /\ pc' = "raised"
    /\ exc' = "OSError"
    /\ UNCHANGED <<params, env, finished_early, exit_set, cancel_pc, cancel_at, timerlat_proc,
                   timeseries_proc, timeseries_file, wait_time, trace_file_exists,
                   wake, events, timerlat_output, parsed, ts, outcome>>

\* os.path.isfile(trace_path) at the probe that ends with wait_time = w
IsFile(w) == w >= env.trace_appears * SleepTime

\* line 85 without the test of trace_file_exists
KeepPollingWhenFound == wait_time < TimeoutSeconds

\* the condition of the loop, line 85
KeepPolling == ~trace_file_exists /\ wait_time < TimeoutSeconds

\* lines 85-88, one turn of the loop
PollTracePipe ==
    /\ pc = "poll"
    /\ KeepPolling
    /\ wait_time' = wait_time + SleepTime
    /\ trace_file_exists' = IsFile(wait_time + SleepTime)
    /\ UNCHANGED <<params, env, pc, exc, finished_early, exit_set, cancel_pc, cancel_at,
                   timerlat_proc, timeseries_proc, timeseries_file, wake, events,
                   timerlat_output, parsed, ts, outcome, timerlat_cmd>>

\* lines 85 and 90-91, the loop ends without the file
SkipTimeSeries ==
    /\ pc = "poll"
    /\ ~KeepPolling /\ ~trace_file_exists
    /\ pc' = "wait"
    /\ UNCHANGED <<params, env, exc, finished_early, exit_set, cancel_pc, cancel_at, timerlat_proc,
                   timeseries_proc, timeseries_file, wait_time, trace_file_exists,
                   wake, events, timerlat_output, parsed, ts, outcome, timerlat_cmd>>

\* lines 92-101, the file is there: open the sink and start `cat`
StartMirror ==
    /\ pc = "poll"
    /\ ~KeepPolling /\ trace_file_exists
    /\ env.mirror_launch # "oserror"
    /\ timeseries_file' = "open"
    /\ timeseries_proc' = "running"
    /\ pc' = "wait"
    /\ UNCHANGED <<params, env, exc, finished_early, exit_set, cancel_pc, cancel_at, timerlat_proc,
                   wait_time, trace_file_exists, wake, events, timerlat_output,
                   parsed, ts, outcome, timerlat_cmd>>

\* lines 93-106, `cat` cannot be started: the OSError is not caught either
StartMirrorRaises ==
    /\ pc = "poll"
    /\ ~KeepPolling /\ trace_file_exists
    /\ env.mirror_launch = "oserror"
    /\ timeseries_file' = "open"
    /\ pc' = "raised"
    /\ exc' = "OSError"
    /\ UNCHANGED <<params, env, finished_early, exit_set, cancel_pc, cancel_at, timerlat_proc,
                   timeseries_proc, wait_time, trace_file_exists, wake, events,
                   timerlat_output, parsed, ts, outcome, timerlat_cmd>>

\* a wait that does not see a flag set before it began
IsSetNever == FALSE

\* the flag of the Event, which wait() tests before it blocks and which nothing
\* clears (line 111)
IsSet == exit_set

\* line 111, self.exit.wait(params.duration) returns: at once if the flag is set,
\* else when the timeout expires (never, for a duration of None)
ExitWait ==
    /\ pc = "wait"
    /\ IsSet \/ ~params.duration.isNone
    /\ wake' = IF IsSet THEN "set" ELSE "timeout"
    /\ pc' = "test_finished_early"
    /\ UNCHANGED <<params, env, exc, finished_early, exit_set, cancel_pc, cancel_at, timerlat_proc,
                   timeseries_proc, timeseries_file, wait_time, trace_file_exists,
                   events, timerlat_output, parsed, ts, outcome, timerlat_cmd>>

\* lines 108-117, Ctrl-C inside the try, at the print of line 110 or in the wait
\* of line 111, whether the Event is set or not
KeyboardInterrupt ==
    /\ pc = "wait"
    /\ finished_early' = TRUE
    /\ wake' = "kbd"
    /\ pc' = "test_finished_early"
    /\ UNCHANGED <<params, env, exc, exit_set, cancel_pc, cancel_at, timerlat_proc,
                   timeseries_proc, timeseries_file, wait_time, trace_file_exists,
                   events, timerlat_output, parsed, ts, outcome, timerlat_cmd>>

\* line 121 changed to interrupt on every wake-up, and to test the Event instead
ShouldInterruptAlways == TRUE
ShouldInterruptOnEvent == exit_set

\* the test of line 121
ShouldInterrupt == finished_early

\* lines 121-122
InterruptTimerlat ==
    /\ pc = "test_finished_early"
    /\ events' = IF ShouldInterrupt
                 THEN Append(events, Event("timerlat_proc.send_signal", SIGINT))
                 ELSE events
    /\ pc' = "stop_mirror"
    /\ UNCHANGED <<params, env, exc, finished_early, exit_set, cancel_pc, cancel_at, timerlat_proc,
                   timeseries_proc, timeseries_file, wait_time, trace_file_exists,
                   wake, timerlat_output, parsed, ts, outcome, timerlat_cmd>>

\* lines 126-127 swapped
StopMirrorEventsCloseFirst ==
    <<Event("timeseries_file.close", 0), Event("timeseries_proc.send_signal", SIGINT)>>

\* line 127 left out
StopMirrorEventsNoClose == <<Event("timeseries_proc.send_signal", SIGINT)>>

\* lines 126-127, in this order
StopMirrorEvents ==
    <<Event("timeseries_proc.send_signal", SIGINT), Event("timeseries_file.close", 0)>>

\* lines 124-127
StopMirror ==
    /\ pc = "stop_mirror"
    /\ IF params.enable_time_series /\ trace_file_exists
       THEN /\ events' = events \o StopMirrorEvents
            /\ timeseries_proc' = "interrupted"
            /\ timeseries_file' = "closed"
       ELSE UNCHANGED <<events, timeseries_proc, timeseries_file>>
    /\ pc' = "communicate"
    /\ UNCHANGED <<params, env, exc, finished_early, exit_set, cancel_pc, cancel_at, timerlat_proc,
                   wait_time, trace_file_exists, wake, timerlat_output, parsed, ts,
                   outcome, timerlat_cmd>>

\* the measurement tool ends: at once with a non-zero status when it cannot
\* measure, after an interrupt, or when the duration of its -d flag is over
TimerlatExits ==
    /\ timerlat_proc = "running"
    /\ \/ env.launch = "exit_nonzero"
       \/ Sent("timerlat_proc.send_signal")
       \/ DurationFlag(params)
    /\ timerlat_proc' = "exited"
    /\ UNCHANGED <<params, env, pc, exc, finished_early, exit_set, cancel_pc, cancel_at,
                   timeseries_proc, timeseries_file, wait_time, trace_file_exists,
                   wake, events, timerlat_output, parsed, ts, outcome, timerlat_cmd>>

\* a text of lines, each ended by "\n"
RECURSIVE JoinLines(_)
JoinLines(lines) ==
    IF Len(lines) = 0 THEN <<>>
    ELSE Head(lines) \o <<"\n">> \o JoinLines(Tail(lines))

\* what the tool has written to stdout when it has ended: the lines of its report
Stdout == IF env.launch = "exit_nonzero" THEN <<>> ELSE JoinLines(env.report)

\* what `cat` has written to ./timeseries_file when it is read
TraceFile == JoinLines(env.trace)

\* line 129: communicate() returns when the child has ended
Communicate ==
    /\ pc = "communicate"
    /\ timerlat_proc = "exited"
    /\ timerlat_output' = Stdout
    /\ events' = Append(events, Event("timerlat_proc.communicate", 0))
    /\ pc' = "parse_report"
    /\ UNCHANGED <<params, env, exc, finished_early, exit_set, cancel_pc, cancel_at, timerlat_proc,
                   timeseries_proc, timeseries_file, wait_time, trace_file_exists,
                   wake, parsed, ts, outcome, timerlat_cmd>>

\* lines 162-213
ParseReport ==
    /\ pc = "parse_report"
    /\ LET r == ParseReportText(timerlat_output, params.user_threads) IN
       /\ parsed' = r
       /\ exc' = r.exc
       /\ pc' = IF r.exc = "none" THEN "parse_series" ELSE "raised"
    /\ UNCHANGED <<params, env, finished_early, exit_set, cancel_pc, cancel_at, timerlat_proc,
                   timeseries_proc, timeseries_file, wait_time, trace_file_exists,
                   wake, events, timerlat_output, ts, outcome, timerlat_cmd>>

\* lines 226-307
ParseSeries ==
    /\ pc = "parse_series"
    /\ IF params.enable_time_series /\ trace_file_exists
       THEN LET r == ParseSeriesText(TraceFile, params.cpus,
                                     params.time_series_resolution) IN
            /\ events' = Append(events, Event("timeseries_file.open", 0))
            /\ ts' = r
            /\ exc' = r.exc
            /\ pc' = IF r.exc = "none" THEN "return" ELSE "raised"
       ELSE /\ pc' = "return"
            /\ UNCHANGED <<events, ts, exc>>
    /\ UNCHANGED <<params, env, finished_early, exit_set, cancel_pc, cancel_at, timerlat_proc,
                   timeseries_proc, timeseries_file, wait_time, trace_file_exists,
                   wake, timerlat_output, parsed, outcome, timerlat_cmd>>

\* the three unserialize calls of lines 313-319 raise
ReturnRaises(report, request) ==
    \/ UnserializeRaises(report.total_irq_latency)
    \/ UnserializeRaises(report.total_thr_latency)
    \/ (request.user_threads /\ UnserializeRaises(report.total_usr_latency))

\* lines 315-319 without the test of params.user_threads
TotalUsrLatencyAlways(report, request) ==
    [isNone |-> FALSE, v |-> Unserialize(report.total_usr_latency)]

\* the sixth argument of TimerlatOutput, lines 315-319
TotalUsrLatency(report, request) ==
    IF request.user_threads
    THEN [isNone |-> FALSE, v |-> Unserialize(report.total_usr_latency)]
    ELSE [isNone |-> TRUE, v |-> Unserialize(EmptyDict)]

\* TimerlatOutput(...), lines 309-321
SuccessOutput(report, series, request) ==
    [id |-> "success",
     time_unit |-> report.time_unit,
     latency_hist |-> report.latency_hist,
     stats_per_col |-> report.stats_per_col,
     total_irq_latency |-> Unserialize(report.total_irq_latency),
     total_thr_latency |-> Unserialize(report.total_thr_latency),
     total_usr_latency |-> TotalUsrLatency(report, request),
     latency_timeseries |->
         IF request.enable_time_series
         THEN [isNone |-> FALSE, v |-> series.timeseries_dict]
         ELSE [isNone |-> TRUE, v |-> EmptyDict]]

\* lines 309-321
Return ==
    /\ pc = "return"
    /\ IF ReturnRaises(parsed, params)
       THEN /\ exc' = "ConstraintException"
            /\ pc' = "raised"
            /\ UNCHANGED outcome
       ELSE /\ outcome' = SuccessOutput(parsed, ts, params)
            /\ pc' = "done"
            /\ UNCHANGED exc
    /\ UNCHANGED <<params, env, finished_early, exit_set, cancel_pc, cancel_at, timerlat_proc,
                   timeseries_proc, timeseries_file, wait_time, trace_file_exists,
                   wake, events, timerlat_output, parsed, ts, timerlat_cmd>>

-----------------------------------------------------------------------------
(* The inputs: requests, reports of the tool, captures of the trace pipe *)

\* the sequences of at most n elements of the sequence V
RECURSIVE SeqsUpTo(_, _)
SeqsUpTo(V, n) ==
    IF n = 0 THEN {<<>>}
    ELSE LET S == SeqsUpTo(V, n - 1)
         IN  S \cup {Append(x, V[k]) : x \in {y \in S : Len(y) = n - 1},
                                        k \in 1..Len(V)}

\* the bounds of the model
MaxDuration == 1
MaxBodyLines == 3
MaxTraceLines == 3
MaxFlagValue == 1

\* # RTLA timerlat histogram
TitleLine ==
    <<"#"," ","R","T","L","A"," ","t","i","m","e","r","l","a","t"," ","h",
      "i","s","t","o","g","r","a","m">>
\* # Time unit is us
TimeUnitLine ==
    <<"#"," ","T","i","m","e"," ","u","n","i","t"," ","i","s"," ","u","s">>
\* Index IRQ Thr Usr
IndexLine ==
    <<"I","n","d","e","x"," ","I","R","Q"," ","T","h","r"," ","U","s","r">>
\* 0 5 6 7
RowZero ==
    <<"0"," ","5"," ","6"," ","7">>
\* 1 8 9 4
RowOne ==
    <<"1"," ","8"," ","9"," ","4">>
\* over: 0 0 0
OverRow ==
    <<"o","v","e","r",":"," ","0"," ","0"," ","0">>
\* count: 7 8 9
CountRow ==
    <<"c","o","u","n","t",":"," ","7"," ","8"," ","9">>
\* min: 1 2 3
MinRow ==
    <<"m","i","n",":"," ","1"," ","2"," ","3">>
\* count: 4 5
ShortCountRow ==
    <<"c","o","u","n","t",":"," ","4"," ","5">>
\* 1 x 8 2
BadRow ==
    <<"1"," ","x"," ","8"," ","2">>
\* max: 3 y 1
BadMaxRow ==
    <<"m","a","x",":"," ","3"," ","y"," ","1">>
\* ALL: IRQ Thr Usr
AllRow ==
    <<"A","L","L",":"," ","I","R","Q"," ","T","h","r"," ","U","s","r">>
\* (an empty line)
BlankRow ==
    <<>>

\* the report of the comment of lines 143-160, for one CPU
SampleReport ==
    <<
    \* # RTLA timerlat histogram
      <<"#"," ","R","T","L","A"," ","t","i","m","e","r","l","a","t"," ","h",
        "i","s","t","o","g","r","a","m">>,
    \* # Time unit is microseconds (us)
      <<"#"," ","T","i","m","e"," ","u","n","i","t"," ","i","s"," ","m","i",
        "c","r","o","s","e","c","o","n","d","s"," ","(","u","s",")">>,
    \* # Duration: 0 00:00:02
      <<"#"," ","D","u","r","a","t","i","o","n",":"," ","0"," ","0","0",":",
        "0","0",":","0","2">>,
    \* Index IRQ-001 Thr-001 Usr-001
      <<"I","n","d","e","x"," ","I","R","Q","-","0","0","1"," ","T","h","r",
        "-","0","0","1"," ","U","s","r","-","0","0","1">>,
    \* 0 1000 944 134
      <<"0"," ","1","0","0","0"," ","9","4","4"," ","1","3","4">>,
    \* 10 0 55 863
      <<"1","0"," ","0"," ","5","5"," ","8","6","3">>,
    \* 20 0 1 3
      <<"2","0"," ","0"," ","1"," ","3">>,
    \* over: 0 0 0
      <<"o","v","e","r",":"," ","0"," ","0"," ","0">>,
    \* count: 1000 1000 1000
      <<"c","o","u","n","t",":"," ","1","0","0","0"," ","1","0","0","0"," ",
        "1","0","0","0">>,
    \* min: 0 3 4
      <<"m","i","n",":"," ","0"," ","3"," ","4">>,
    \* avg: 1 7 10
      <<"a","v","g",":"," ","1"," ","7"," ","1","0">>,
    \* max: 7 21 24
      <<"m","a","x",":"," ","7"," ","2","1"," ","2","4">>,
    \* ALL: IRQ Thr Usr
      <<"A","L","L",":"," ","I","R","Q"," ","T","h","r"," ","U","s","r">>,
    \* count: 1999 1999 1999
      <<"c","o","u","n","t",":"," ","1","9","9","9"," ","1","9","9","9"," ",
        "1","9","9","9">>,
    \* min: 0 2 3
      <<"m","i","n",":"," ","0"," ","2"," ","3">>,
    \* avg: 0 4 6
      <<"a","v","g",":"," ","0"," ","4"," ","6">>,
    \* max: 7 21 24
      <<"m","a","x",":"," ","7"," ","2","1"," ","2","4">>
    >>

\* the lines a report is built from, after its header
ReportVocabulary ==
    <<RowZero, RowOne, OverRow, CountRow, MinRow, ShortCountRow, BadRow,
      BadMaxRow, AllRow, BlankRow>>

ReportInputs ==
    {<<>>, <<TitleLine, TimeUnitLine>>, SampleReport}
    \cup {<<TimeUnitLine, IndexLine>> \o b :
              b \in SeqsUpTo(ReportVocabulary, MaxBodyLines)}

\* <idle>-0 [001] d. 1.0: #1 context irq timer_latency 5 ns
IrqAtOne ==
    <<"<","i","d","l","e",">","-","0"," ","[","0","0","1","]"," ","d",".",
      " ","1",".","0",":"," ","#","1"," ","c","o","n","t","e","x","t"," ",
      "i","r","q"," ","t","i","m","e","r","_","l","a","t","e","n","c","y",
      " ","5"," ","n","s">>
\* <idle>-0 [001] d. 1.5: #2 context irq timer_latency 6 ns
IrqAtOneHalf ==
    <<"<","i","d","l","e",">","-","0"," ","[","0","0","1","]"," ","d",".",
      " ","1",".","5",":"," ","#","2"," ","c","o","n","t","e","x","t"," ",
      "i","r","q"," ","t","i","m","e","r","_","l","a","t","e","n","c","y",
      " ","6"," ","n","s">>
\* <...>-7 [002] .. 3.0: #3 context thread timer_latency 7 ns
ThreadAtThree ==
    <<"<",".",".",".",">","-","7"," ","[","0","0","2","]"," ",".","."," ",
      "3",".","0",":"," ","#","3"," ","c","o","n","t","e","x","t"," ","t",
      "h","r","e","a","d"," ","t","i","m","e","r","_","l","a","t","e","n",
      "c","y"," ","7"," ","n","s">>
\* <idle>-0 [001] d. 0.0: #0 context irq timer_latency 4 ns
IrqAtZero ==
    <<"<","i","d","l","e",">","-","0"," ","[","0","0","1","]"," ","d",".",
      " ","0",".","0",":"," ","#","0"," ","c","o","n","t","e","x","t"," ",
      "i","r","q"," ","t","i","m","e","r","_","l","a","t","e","n","c","y",
      " ","4"," ","n","s">>
\* <idle>-0 d. 2.0: #4 context irq timer_latency 8 ns
NoCpuField ==
    <<"<","i","d","l","e",">","-","0"," ","d","."," ","2",".","0",":"," ",
      "#","4"," ","c","o","n","t","e","x","t"," ","i","r","q"," ","t","i",
      "m","e","r","_","l","a","t","e","n","c","y"," ","8"," ","n","s">>
\* my proc-9 [002] .. 2.5: #5 context thread timer_latency 9 ns
TwoWordTask ==
    <<"m","y"," ","p","r","o","c","-","9"," ","[","0","0","2","]"," ",".",
      "."," ","2",".","5",":"," ","#","5"," ","c","o","n","t","e","x","t",
      " ","t","h","r","e","a","d"," ","t","i","m","e","r","_","l","a","t",
      "e","n","c","y"," ","9"," ","n","s">>
\* (an empty line)
BlankTrace ==
    <<>>
\* <idle>-0 [001] d. 2.0: #6 context irq timer_latency x ns
BadLatency ==
    <<"<","i","d","l","e",">","-","0"," ","[","0","0","1","]"," ","d",".",
      " ","2",".","0",":"," ","#","6"," ","c","o","n","t","e","x","t"," ",
      "i","r","q"," ","t","i","m","e","r","_","l","a","t","e","n","c","y",
      " ","x"," ","n","s">>

TraceVocabulary ==
    <<IrqAtOne, IrqAtOneHalf, ThreadAtThree, IrqAtZero, NoCpuField, TwoWordTask,
      BlankTrace, BadLatency>>

TraceInputs == SeqsUpTo(TraceVocabulary, MaxTraceLines)

Durations == {None} \cup {Some(d) : d \in 0..MaxDuration}

\* the probe from which on the trace pipe is there; NeverAppears is beyond the
\* last probe of the loop
NeverAppears == TimeoutSeconds \div SleepTime + 1

\* the invocations of the orchestration: every launch result, every wake-up,
\* a cancel at any moment, and a few reports and captures
OrchReports == {<<>>, <<TimeUnitLine, IndexLine, RowZero, OverRow, AllRow, CountRow>>}
OrchTraces ==
    {<<>>, <<IrqAtZero, IrqAtOne, ThreadAtThree>>, <<IrqAtOne, TwoWordTask>>,
     <<IrqAtOne, IrqAtOne, NoCpuField>>}

\* what a request or an environment cannot show in a run is held fixed
Pinned ==
    /\ ~params.enable_time_series =>
           env.mirror_launch = "ok" /\ env.trace_appears = 1 /\ env.trace = <<>>
    /\ env.launch # "ok" => env.report = <<>>
    /\ params.schema_instance => ~params.enable_time_series /\ env.report = <<>>

Init ==
    /\ InitWith([schema_instance : BOOLEAN, duration : Durations,
                 period : {None}, house_keeping : {<<>>}, nano : {FALSE},
                 bucket_size : {None}, entries : {None}, user_threads : {TRUE},
                 enable_time_series : BOOLEAN, cpus : {<<>>},
                 time_series_resolution : {0}],
                [launch : {"ok", "oserror", "exit_nonzero"},
                 mirror_launch : {"ok", "oserror"},
                 trace_appears : {1, 3, NeverAppears},
                 report : OrchReports, trace : OrchTraces])
    /\ Pinned

Next ==
    \/ PopenTimerlat
    \/ PopenTimerlatRaises
    \/ PollTracePipe
    \/ SkipTimeSeries
    \/ StartMirror
    \/ StartMirrorRaises
    \/ ExitWait
    \/ KeyboardInterrupt
    \/ InterruptTimerlat
    \/ StopMirror
    \/ TimerlatExits
    \/ Communicate
    \/ ParseReport
    \/ ParseSeries
    \/ Return
    \/ CancelStepFlag
    \/ CancelStepSet

Spec == Init /\ [][Next]_vars

\* the steps of run_timerlat: the thread that runs it is scheduled, sleep() and
\* the timed wait return; no cancel and no Ctrl-C is bound to come
RunStep ==
    \/ PopenTimerlat
    \/ PopenTimerlatRaises
    \/ PollTracePipe
    \/ SkipTimeSeries
    \/ StartMirror
    \/ StartMirrorRaises
    \/ ExitWait
    \/ InterruptTimerlat
    \/ StopMirror
    \/ Communicate
    \/ ParseReport
    \/ ParseSeries
    \/ Return

\* the invocations whose tool prints nothing and whose capture stays empty:
\* every launch result, every wake-up, a cancel at any moment
InitLive ==
    /\ InitWith([schema_instance : BOOLEAN, duration : Durations,
                 period : {None}, house_keeping : {<<>>}, nano : {FALSE},
                 bucket_size : {None}, entries : {None}, user_threads : {TRUE},
                 enable_time_series : BOOLEAN, cpus : {<<>>},
                 time_series_resolution : {0}],
                [launch : {"ok", "oserror", "exit_nonzero"},
                 mirror_launch : {"ok", "oserror"},
                 trace_appears : {1, 3, NeverAppears},
                 report : {<<>>}, trace : {<<>>}])
    /\ Pinned

\* these invocations, where run_timerlat goes on while it can and the tool
\* ends when it was interrupted or when its -d duration is over
SpecLive == InitLive /\ [][Next]_vars /\ WF_vars(RunStep) /\ WF_vars(TimerlatExits)

\* the report parser on every report of at most MaxBodyLines lines after the
\* header: one invocation without time series, ended by its duration
InitReport ==
    InitWith([schema_instance : {FALSE}, duration : {Some(1)},
              period : {None}, house_keeping : {<<>>}, nano : {FALSE},
              bucket_size : {None}, entries : {None}, user_threads : BOOLEAN,
              enable_time_series : {FALSE}, cpus : {<<>>},
              time_series_resolution : {0}],
             [launch : {"ok"}, mirror_launch : {"ok"}, trace_appears : {1},
              report : ReportInputs, trace : {<<>>}])

NextReport ==
    \/ PopenTimerlat
    \/ ExitWait
    \/ InterruptTimerlat
    \/ StopMirror
    \/ TimerlatExits
    \/ Communicate
    \/ ParseReport
    \/ ParseSeries
    \/ Return

SpecReport == InitReport /\ [][NextReport]_vars

\* the time series parser on every capture of at most MaxTraceLines lines
InitSeries ==
    InitWith([schema_instance : {FALSE}, duration : {Some(1)},
              period : {None}, house_keeping : {<<>>}, nano : {FALSE},
              bucket_size : {None}, entries : {None}, user_threads : {FALSE},
              enable_time_series : {TRUE}, cpus : {<<>>, <<1>>},
              time_series_resolution : {0, 10}],
             [launch : {"ok"}, mirror_launch : {"ok"}, trace_appears : {1},
              report : {<<TimeUnitLine, IndexLine, RowZero, OverRow, AllRow, CountRow>>},
              trace : TraceInputs])

NextSeries ==
    \/ PopenTimerlat
    \/ PollTracePipe
    \/ StartMirror
    \/ ExitWait
    \/ InterruptTimerlat
    \/ StopMirror
    \/ TimerlatExits
    \/ Communicate
    \/ ParseReport
    \/ ParseSeries
    \/ Return

SpecSeries == InitSeries /\ [][NextSeries]_vars

\* the values of the numeric fields, and the least value of entries (schema.min)
FlagInts == {None} \cup {Some(n) : n \in 0..MaxFlagValue}
MinEntries == 10

\* to_flags on every request over these values: one invocation without time
\* series whose tool prints nothing
InitFlags ==
    InitWith([schema_instance : BOOLEAN, period : FlagInts, cpus : {<<>>, <<0>>, <<0, 1>>},
              house_keeping : {<<>>, <<1>>}, duration : FlagInts, nano : BOOLEAN,
              bucket_size : FlagInts, entries : {None, Some(MinEntries)},
              user_threads : BOOLEAN, enable_time_series : {FALSE},
              time_series_resolution : {0}],
             [launch : {"ok"}, mirror_launch : {"ok"}, trace_appears : {1},
              report : {<<>>}, trace : {<<>>}])

NextFlags ==
    \/ PopenTimerlat
    \/ ExitWait
    \/ InterruptTimerlat
    \/ StopMirror
    \/ TimerlatExits
    \/ Communicate
    \/ ParseReport
    \/ ParseSeries
    \/ Return

SpecFlags == InitFlags /\ [][NextFlags]_vars

-----------------------------------------------------------------------------
(* The claims about the orchestration, under Spec *)

ToTimerlat == "timerlat_proc.send_signal"
ToMirror == "timeseries_proc.send_signal"
CloseSink == "timeseries_file.close"
Drain == "timerlat_proc.communicate"
ReadSink == "timeseries_file.open"

Count1(op) == Cardinality({i \in 1..Len(events) : events[i].op = op})

\* run_timerlat has returned or raised
Ended == pc \in {"done", "raised"}

\* the test of line 121 has been made
PastTest == pc \in {"stop_mirror", "communicate"} \/ Sent(Drain)

\* cancel_step began no later than the test of line 121
CancelBeforeTest == cancel_at \in {"popen", "poll", "wait", "test_finished_early"}

C2_LateCancelIsNoOp ==
    (wake = "timeout" /\ cancel_at \notin {"popen", "poll", "wait"}) => ~Sent(ToTimerlat)

\* the wait returns once, for the reason that holds when it returns
WakeOnce ==
    /\ wake # "none" => wake' = wake
    /\ (wake = "none" /\ wake' # "none") =>
           /\ pc = "wait" /\ pc' = "test_finished_early"
           /\ wake' = "set" => exit_set
           /\ wake' = "timeout" => ~exit_set /\ ~params.duration.isNone

\* C2 amended: the wait is woken exactly once, by the cancel if the Event is set
\* and by the timeout otherwise; a cancel that begins after the test of line 121
\* changes no signal; one that begins between the wake-up and that test makes
\* run_timerlat interrupt the measurement subprocess.
C2_WakeOnceAndCancelAfterTestIsNoOp ==
    /\ [][WakeOnce]_vars
    /\ [](/\ (cancel_at \notin {"never", "popen", "poll", "wait", "test_finished_early"}
              => (Sent(ToTimerlat) <=> wake = "kbd"))
          /\ (cancel_at = "test_finished_early" /\ PastTest => Sent(ToTimerlat))
          /\ (wake = "set" => cancel_at \in {"popen", "poll", "wait"}))

\* a cancel that arrived while the output was awaited, after an expiry
C2_Witness ==
    pc = "done" /\ wake = "timeout" /\ cancel_at = "communicate" /\ ~Sent(ToTimerlat)

\* C3 as stated: the sink is closed only after both interrupts and after
\* communicate() has returned.
C3_SinkClosedAfterDrain ==
    Sent(CloseSink) =>
        /\ Sent(ToMirror) /\ Pos(ToMirror) < Pos(CloseSink)
        /\ Sent(ToTimerlat) /\ Pos(ToTimerlat) < Pos(CloseSink)
        /\ Sent(Drain) /\ Pos(Drain) < Pos(CloseSink)

\* C3 amended: the sink is closed after the mirror's interrupt, and after the
\* measurement subprocess's interrupt when one is sent; it is closed before
\* communicate() is called, and read only after communicate() has returned.
C3_SinkClosedAfterInterrupts ==
    /\ timeseries_file = "closed" <=> Sent(CloseSink)
    /\ Sent(CloseSink) =>
           /\ Sent(ToMirror) /\ Pos(ToMirror) < Pos(CloseSink)
           /\ Sent(ToTimerlat) => Pos(ToTimerlat) < Pos(CloseSink)
    /\ Sent(Drain) =>
           /\ timeseries_proc # "none" => Sent(CloseSink) /\ Pos(CloseSink) < Pos(Drain)
           /\ timeseries_proc = "none" => ~Sent(CloseSink)
    /\ Sent(ReadSink) => Sent(Drain) /\ Pos(Drain) < Pos(ReadSink)

\* a cancelled invocation with a mirror has closed the sink and read the output
C3_Witness ==
    /\ Sent(CloseSink) /\ Sent(ToTimerlat) /\ Sent(Drain) /\ Sent(ReadSink)
    /\ Pos(ToTimerlat) < Pos(ToMirror) /\ Pos(CloseSink) < Pos(Drain)

\* C4: when the tool cannot be started, or ends at once with a non-zero status,
\* run_timerlat returns the error outcome.
C4_LaunchFailureReturnsError ==
    (Ended /\ env.launch # "ok") => (pc = "done" /\ outcome.id = "error")

-----------------------------------------------------------------------------
(* The claims about the report parser, under SpecReport *)

\* the lines of a report by their place, told without the parser: the header
\* ends at the first line that starts with Index, Phase 2 at the first line
\* after it whose first token starts with ALL
FirstIn(S, none) == IF S = {} THEN none ELSE CHOOSE i \in S : \A j \in S : i <= j
HeaderEnd(report) ==
    FirstIn({i \in 1..Len(report) : StartsWith(report[i], IndexWord)}, Len(report) + 1)
Phase2End(report) ==
    FirstIn({i \in (HeaderEnd(report) + 1)..Len(report) :
                 /\ Len(Split(report[i])) > 0
                 /\ StartsWith(Split(report[i])[1], AllWord)},
            Len(report) + 1)
Phase2Lines(report) == SubSeq(report, HeaderEnd(report) + 1, Phase2End(report) - 1)
Phase3Lines(report) == SubSeq(report, Phase2End(report) + 1, Len(report))
HeaderOnly(report) == HeaderEnd(report) >= Len(report)

AllNull(stats) ==
    stats.count.isNone /\ stats.min.isNone /\ stats.avg.isNone /\ stats.max.isNone

\* C5: once the measurement subprocess has been started, a report that is empty
\* or holds header lines only gives the success outcome, whatever the request:
\* the invocation raises nothing, and its outcome has an empty histogram, empty
\* statistics and every field of every aggregate None; without time series,
\* latency_timeseries is None.
C5_HeaderOnlyReportIsEmptySuccess ==
    (timerlat_proc # "none" /\ HeaderOnly(env.report)) =>
        /\ pc # "raised"
        /\ pc = "done" =>
               /\ outcome.id = "success"
               /\ outcome.latency_hist = <<>>
               /\ outcome.stats_per_col = <<>>
               /\ AllNull(outcome.total_irq_latency)
               /\ AllNull(outcome.total_thr_latency)
               /\ outcome.total_usr_latency.isNone <=> ~params.user_threads
               /\ AllNull(outcome.total_usr_latency.v)
               /\ ~params.enable_time_series => outcome.latency_timeseries.isNone

NumericFirst(line) == Len(Split(line)) > 0 /\ IsDigit(Split(line)[1])
LabelFirst(line) == ~NumericFirst(line)
RowsOf(report, rows) ==
    LET col_headers == Split(Lower(report[HeaderEnd(report)]))
    IN  [k \in 1..Len(rows) |->
            RowObj(col_headers, Split(rows[k]), IndexCell(Split(rows[k])[1]))]

\* C6: in every result, latency_hist is the rows of the Phase 2 lines whose first
\* token is numeric, in order, and stats_per_col the rows of those whose first
\* token is a label, whatever the order of the lines.
C6_HistogramIsTheNumericRows ==
    (pc = "done" /\ ~HeaderOnly(env.report)) =>
        /\ outcome.latency_hist =
               RowsOf(env.report, SelectSeq(Phase2Lines(env.report), NumericFirst))
        /\ outcome.stats_per_col =
               RowsOf(env.report, SelectSeq(Phase2Lines(env.report), LabelFirst))

\* the last line of the summary with label L, 0 when there is none
LastLabelled(summary, L) ==
    LET S == {i \in 1..Len(summary) : DropLast(Split(summary[i])[1]) = L}
    IN  IF S = {} THEN 0 ELSE CHOOSE i \in S : \A j \in S : j <= i
\* the value of a field whose line has no integer at that place
NoSuchToken == [isNone |-> TRUE, v |-> 1]
TokenOf(summary, L, n) ==
    IF LastLabelled(summary, L) = 0 THEN None
    ELSE LET t == Split(summary[LastLabelled(summary, L)])
         IN  IF Len(t) >= n /\ IntOk(t[n]) THEN Some(IntVal(t[n])) ELSE NoSuchToken
StatsOf(summary, n) ==
    [count |-> TokenOf(summary, Count, n), min |-> TokenOf(summary, MinLabel, n),
     avg |-> TokenOf(summary, AvgLabel, n), max |-> TokenOf(summary, MaxLabel, n)]

\* C7: in every result, field L of total_irq_latency is the 2nd token of the
\* summary line labelled L, that of total_thr_latency its 3rd token and, with
\* user_threads, that of total_usr_latency its 4th token; a label with no line
\* leaves its field None, and no line changes the field of another label.
C7_AggregatesTakeSecondThirdFourthToken ==
    pc = "done" =>
        LET summary == Phase3Lines(env.report) IN
        /\ outcome.total_irq_latency = StatsOf(summary, 2)
        /\ outcome.total_thr_latency = StatsOf(summary, 3)
        /\ params.user_threads => outcome.total_usr_latency.v = StatsOf(summary, 4)

\* a summary of two labels has been returned in user-thread mode
C7_Witness ==
    /\ pc = "done" /\ params.user_threads
    /\ env.report = <<TimeUnitLine, IndexLine, AllRow, CountRow, MinRow>>
    /\ outcome.total_thr_latency.count = Some(8)
    /\ outcome.total_usr_latency.v.min = Some(3)

\* a value token of a row or of a summary line that int() rejects
BadValueToken(report) ==
    \E i \in (HeaderEnd(report) + 1)..Len(report) :
        LET line_list == Split(report[i]) IN
        /\ i # Phase2End(report)
        /\ \E j \in 2..Min2(4, Len(line_list)) : ~IntOk(line_list[j])

\* C8: a report with a value token that is no integer ends in the error outcome,
\* not in a success outcome and not in an exception.
C8_MalformedValueIsErrorOutcome ==
    (Ended /\ BadValueToken(env.report)) => (pc = "done" /\ outcome.id = "error")

-----------------------------------------------------------------------------
(* The claims about the trace capture, under Spec and SpecSeries *)

\* C9: with time series enabled and the tool started, whatever happens to the
\* trace pipe, the mirror or the capture, the invocation ends in the success
\* outcome with the histogram and statistics of the report.
C9_TailerFailureNeverAborts ==
    (Ended /\ env.launch = "ok" /\ params.enable_time_series) =>
        /\ pc = "done" /\ outcome.id = "success"
        /\ outcome.latency_hist = parsed.latency_hist
        /\ outcome.stats_per_col = parsed.stats_per_col

\* a trace line from which one of the four fields cannot be taken
LacksField(line) ==
    LET t == Split(line) IN
    ~ /\ Len(t) >= 9
      /\ Len(t[2]) >= 2 /\ t[2][1] = "[" /\ t[2][Len(t[2])] = "]"
      /\ IntOk(DropFirstLast(t[2]))
      /\ FloatOk(DropLast(t[4]))
      /\ Len(t[7]) > 0
      /\ IntOk(t[9])

\* C10: a capture with a line that lacks one of the four fields ends in the
\* success outcome with an empty latency_timeseries and the report's histogram
\* and statistics.
C10_MalformedLineEmptiesTheSeries ==
    (Ended /\ \E i \in 1..Len(env.trace) : LacksField(env.trace[i])) =>
        /\ pc = "done" /\ outcome.id = "success"
        /\ outcome.latency_timeseries = [isNone |-> FALSE, v |-> EmptyDict]
        /\ outcome.latency_hist = parsed.latency_hist /\ Len(outcome.latency_hist) = 1

\* the points returned under a key
SeriesKeys == DOMAIN outcome.latency_timeseries.v
PointsOf(key) == outcome.latency_timeseries.v[key]

KeyCpu(key) ==
    LET u == CHOOSE i \in 4..Len(key) : key[i] = "_" /\ \A j \in 4..(i - 1) : key[j] # "_"
    IN  IntVal(SubSeq(key, 4, u - 1))

\* the CPU indices the lines of a capture carry in brackets
HasCpu(line) == CpuOk(Split(line))
CpusOf(trace) ==
    LET with == SelectSeq(trace, HasCpu)
    IN  [k \in 1..Len(with) |-> IntVal(DropFirstLast(Split(with[k])[2]))]

\* C12: with a non-empty params.cpus every key cpuN_context of the returned time
\* series has its N in params.cpus; with an empty params.cpus the time series
\* is the one returned when every CPU of the capture is asked for.
C12_KeysAreOfRequestedCpus ==
    pc = "done" =>
        /\ Len(params.cpus) > 0 =>
               \A key \in SeriesKeys :
                   \E j \in 1..Len(params.cpus) : params.cpus[j] = KeyCpu(key)
        /\ Len(params.cpus) = 0 =>
               outcome.latency_timeseries.v =
                   ParseSeriesText(TraceFile, CpusOf(env.trace),
                                   params.time_series_resolution).timeseries_dict

\* a capture with samples of CPU 1 and of CPU 2 has been filtered for CPU 1
C12_Witness ==
    /\ pc = "done" /\ params.cpus = <<1>>
    /\ env.trace = <<IrqAtZero, IrqAtOne, ThreadAtThree>>
    /\ SeriesKeys = {CpuContext(1, <<"i", "r", "q">>)}
    /\ Len(PointsOf(CpuContext(1, <<"i", "r", "q">>))) = 1

\* C13: in every success outcome total_usr_latency is None exactly when
\* params.user_threads is unset, whatever the report holds; when it is set the
\* field is a LatencyStats, with every field None if the report has no summary.
C13_UsrAggregateIffUserThreads ==
    outcome.id = "success" =>
        /\ outcome.total_usr_latency.isNone <=> ~params.user_threads
        /\ (params.user_threads /\ Phase3Lines(env.report) = <<>>) =>
               AllNull(outcome.total_usr_latency.v)

\* a report whose summary has a fourth column was returned without user threads
C13_Witness ==
    /\ pc = "done" /\ ~params.user_threads
    /\ env.report = <<TimeUnitLine, IndexLine, RowZero, AllRow, CountRow>>
    /\ outcome.total_usr_latency.isNone
    /\ outcome.total_thr_latency.count = Some(8)

OverLabel == <<"o", "v", "e", "r">>

\* C14: after the parse of any report none of the three aggregates holds an
\* entry under over, also when a line over: follows the ALL line.
C14_OverNeverPopulatesAnAggregate ==
    OverLabel \notin DOMAIN parsed.total_irq_latency
                     \cup DOMAIN parsed.total_thr_latency
                     \cup DOMAIN parsed.total_usr_latency

-----------------------------------------------------------------------------
(* More claims about the orchestration, under Spec *)

\* lines 124-127 are behind
PastStop == pc = "communicate" \/ Sent(Drain)

\* C15 as stated: a mirror that was started is interrupted after the measurement
\* subprocess was, the sink is closed after the mirror's interrupt and read only
\* after it was closed; with no mirror started none is interrupted, no sink read.
C15_MirrorStoppedAfterTimerlat ==
    /\ Sent(ToMirror) => Sent(ToTimerlat) /\ Pos(ToTimerlat) < Pos(ToMirror)
    /\ Sent(CloseSink) => Sent(ToMirror) /\ Pos(ToMirror) < Pos(CloseSink)
    /\ Sent(ReadSink) => Sent(CloseSink) /\ Pos(CloseSink) < Pos(ReadSink)
    /\ timeseries_proc = "none" => ~Sent(ToMirror) /\ ~Sent(ReadSink)

\* C15 amended: a mirror that was started is interrupted at lines 124-127, after
\* the measurement subprocess when that one is interrupted at all (it is not
\* after a plain expiry); the sink is closed after the mirror's interrupt and
\* read only after it was closed; with no mirror started no mirror is
\* interrupted and no sink is closed or read.
C15_MirrorStoppedThenSinkClosedThenRead ==
    /\ (timeseries_proc # "none" /\ PastStop) => Sent(ToMirror)
    /\ Sent(ToMirror) =>
           /\ Sent(ToTimerlat) <=> (wake = "kbd" \/ CancelBeforeTest)
           /\ Sent(ToTimerlat) => Pos(ToTimerlat) < Pos(ToMirror)
    /\ Count1(ToMirror) <= 1 /\ Count1(CloseSink) <= 1 /\ Count1(ReadSink) <= 1
    /\ Sent(CloseSink) => Sent(ToMirror) /\ Pos(ToMirror) < Pos(CloseSink)
    /\ Sent(ReadSink) => Sent(CloseSink) /\ Pos(CloseSink) < Pos(ReadSink)
    /\ timeseries_proc = "none" =>
           ~Sent(ToMirror) /\ ~Sent(CloseSink) /\ ~Sent(ReadSink)

\* after a plain expiry the mirror was interrupted alone, and its capture read
C15_Witness ==
    /\ pc = "done" /\ wake = "timeout" /\ cancel_at = "never"
    /\ Sent(ToMirror) /\ ~Sent(ToTimerlat)
    /\ Pos(ToMirror) < Pos(CloseSink) /\ Pos(CloseSink) < Pos(ReadSink)

\* the probes of the trace pipe made so far
Probes == wait_time \div SleepTime

\* C16: the poll of the trace pipe ends: it makes at most
\* TimeoutSeconds / SleepTime probes and none after the first that finds the
\* pipe; when none finds it, no mirror is started, the invocation goes on to
\* the wait and what it returns is success with an empty time series.
C16_PollEndsAndIsNoError ==
    /\ [](/\ Probes <= TimeoutSeconds \div SleepTime
          /\ wait_time = Probes * SleepTime
          /\ trace_file_exists <=> Probes >= env.trace_appears
          /\ trace_file_exists => Probes = env.trace_appears
          /\ ~trace_file_exists => timeseries_proc = "none" /\ ~Sent(ReadSink))
    /\ [][(pc = "poll" /\ pc' # "poll" /\ ~trace_file_exists) =>
              (pc' = "wait" /\ Probes = TimeoutSeconds \div SleepTime)]_vars
    /\ []((Ended /\ params.enable_time_series /\ env.launch # "oserror"
                 /\ env.trace_appears = NeverAppears) =>
              /\ pc = "done" /\ outcome.id = "success"
              /\ outcome.latency_timeseries = [isNone |-> FALSE, v |-> EmptyDict])
    /\ (pc = "poll" ~> pc # "poll")

\* every probe failed and the invocation has returned its result
C16_Witness ==
    /\ pc = "done" /\ params.enable_time_series /\ ~trace_file_exists
    /\ Probes = TimeoutSeconds \div SleepTime /\ outcome.id = "success"

-----------------------------------------------------------------------------
(* The claim about the command line, under SpecFlags *)

\* what a field that is set puts on the command line: its flag, and the value
\* of a number or the comma-joined elements of a list
SetInt(key, value) ==
    IF value.isNone THEN <<>> ELSE <<FlagToken(key), IntStr(value.v)>>
SetList(key, value) ==
    IF Len(value) = 0 THEN <<>> ELSE <<FlagToken(key), CommaJoin(value)>>
SetBool(key, value) ==
    IF value THEN <<FlagToken(key)>> ELSE <<>>
FlagsOfSetFields(p) ==
    SetInt("p", p.period) \o SetList("c", p.cpus) \o SetList("H", p.house_keeping)
    \o SetInt("d", p.duration) \o SetBool("n", p.nano) \o SetInt("b", p.bucket_size)
    \o SetInt("E", p.entries) \o SetBool("u", p.user_threads)

\* C17: the command line of every request holds, after the three words of the
\* command, one flag per field that is set (a number of the field's range, a
\* non-empty list, a true boolean), a number followed by its value, a list by
\* its elements joined with commas, a boolean by nothing, and nothing else.
C17_OneFlagPerSetField ==
    timerlat_cmd # <<>> =>
        timerlat_cmd = <<RtlaPath, TimerlatWord, HistWord>> \o FlagsOfSetFields(params)

-----------------------------------------------------------------------------
(* More claims about the report parser, under SpecReport *)

\* the three loops of the report parser have run to their end
ReportParsed ==
    \/ pc \in {"parse_series", "return", "done"}
    \/ pc = "raised" /\ exc = "ConstraintException"

LabelsOf(summary) == {DropLast(Split(summary[i])[1]) : i \in 1..Len(summary)}

\* C18: the first line after the header whose first token starts with ALL ends
\* Phase 2 and leaves nothing: the rows are those of the lines before it, the
\* entries of the aggregates those of the lines after it, none of them its own.
C18_AllLineContributesNothing ==
    ReportParsed =>
        /\ Len(parsed.latency_hist) + Len(parsed.stats_per_col)
               = Len(Phase2Lines(env.report))
        /\ DOMAIN parsed.total_irq_latency = LabelsOf(Phase3Lines(env.report))
        /\ DOMAIN parsed.total_thr_latency = LabelsOf(Phase3Lines(env.report))
        /\ DOMAIN parsed.total_usr_latency =
               IF params.user_threads THEN LabelsOf(Phase3Lines(env.report)) ELSE {}

\* a report with a row, the ALL line and a summary line has been parsed
C18_Witness ==
    /\ pc = "done"
    /\ env.report = <<TimeUnitLine, IndexLine, RowZero, AllRow, MinRow>>
    /\ Len(parsed.latency_hist) = 1 /\ parsed.stats_per_col = <<>>
    /\ DOMAIN parsed.total_irq_latency = {MinLabel}

-----------------------------------------------------------------------------
(* Termination, under SpecLive *)

\* a cancel signal or a Ctrl-C has reached the invocation
Cancelled == cancel_pc # "idle" \/ wake = "kbd"

\* the request bounds the measurement and carries the attributes run_timerlat
\* reads, and both children could be launched
BoundedRun ==
    /\ HasAttr(params)
    /\ ~params.duration.isNone
    /\ env.launch = "ok"
    /\ env.mirror_launch = "ok"

\* C19: an invocation with a duration bound d >= 0 that is never cancelled
\* eventually returns an outcome, the tool ending on an interrupt or when the
\* duration of its -d flag is over.
C19_BoundedRunReturns == BoundedRun => <>(pc = "done" \/ Cancelled)


\* cancel_step began before the wait had ended
CancelBeforeWake == cancel_at \in {"popen", "poll", "wait"}

\* the Event stays set, and a wait that ends while it is set ends because of it
\* (or because of a Ctrl-C), not because the duration is over
SetIsKept ==
    /\ exit_set => exit_set'
    /\ finished_early => finished_early'
    /\ (pc = "wait" /\ pc' # "wait" /\ exit_set) => wake' \in {"set", "kbd"}

\* C20: a cancel handled before the wait ends, during the launch or the polling
\* as well, is not lost: the set Event is kept and ends the wait whatever the
\* duration, finished_early is true when line 121 tests it, and the measurement
\* subprocess has its interrupt once the test is made.
C20_EarlyCancelIsNotLost ==
    /\ [][SetIsKept]_vars
    /\ [](CancelBeforeWake /\ pc = "test_finished_early" => finished_early)
    /\ [](CancelBeforeWake /\ PastTest => Sent(ToTimerlat))
    /\ [](cancel_pc = "returned" => exit_set /\ finished_early)
    /\ ((pc = "wait" /\ exit_set) ~> (wake \in {"set", "kbd"} /\ Sent(ToTimerlat)))

\* a cancel handled during the polling has ended a wait that has no duration
C20_Witness ==
    /\ pc = "done" /\ cancel_at = "poll" /\ params.duration.isNone
    /\ wake = "set" /\ finished_early /\ Sent(ToTimerlat)

-----------------------------------------------------------------------------
(* Release of the children and of the sink, under Spec *)

\* run_timerlat is over after the launch of the mirror process has failed
MirrorLaunchFailed ==
    pc = "raised" /\ exc = "OSError" /\ timerlat_proc # "none"

\* every child that was started has ended or has its interrupt, and the sink
\* is not left open
Released ==
    /\ timerlat_proc = "running" => Sent(ToTimerlat)
    /\ timeseries_proc = "running" => Sent(ToMirror)
    /\ timeseries_file # "open"

\* C21: when run_timerlat is over with an outcome, every child it started has
\* exited or been sent an interrupt and the sink, if opened, is closed; so it is
\* too when the mirror process could not be launched after the measurement
\* subprocess was started.
C21_ChildrenAndSinkReleased ==
    (pc = "done" \/ MirrorLaunchFailed) => Released

-----------------------------------------------------------------------------
(* More claims about the time series parser, under SpecSeries *)

\* the sample a well-formed trace line carries
LineCpu(line) == IntVal(DropFirstLast(Split(line)[2]))
LineKey(line) == CpuContext(LineCpu(line), Split(line)[7])
LinePoint(line) ==
    [timestamp |-> FloatTenths(DropLast(Split(line)[4])) + UptimeOffset,
     latency_ns |-> IntVal(Split(line)[9])]

\* the CPU of a line is one the request asks for
Requested(line) ==
    Len(params.cpus) = 0 \/ \E j \in 1..Len(params.cpus) : params.cpus[j] = LineCpu(line)

\* C22: the first line of a capture is examined like the others: when every line
\* is well formed and the first is a sample of a requested CPU, that sample is
\* the first point of its (CPU, context) series.
C22_FirstLineIsRetained ==
    (/\ pc = "done" /\ Len(env.trace) >= 1
     /\ \A i \in 1..Len(env.trace) : ~LacksField(env.trace[i])
     /\ Requested(env.trace[1])) =>
        /\ LineKey(env.trace[1]) \in SeriesKeys
        /\ Len(PointsOf(LineKey(env.trace[1]))) >= 1
        /\ PointsOf(LineKey(env.trace[1]))[1] = LinePoint(env.trace[1])


\* a token [N] and the index of the first one in a line
Bracketed(tok) ==
    /\ Len(tok) >= 3 /\ tok[1] = "[" /\ tok[Len(tok)] = "]"
    /\ IntOk(DropFirstLast(tok))
CpuTokenAt(t) ==
    CHOOSE i \in 1..Len(t) : Bracketed(t[i]) /\ \A j \in 1..(i - 1) : ~Bracketed(t[j])

\* what a trace line says of itself: its CPU in brackets, then the flags, the
\* time, the sequence number, the word context and its label, the latency
OwnSample(line) ==
    LET t == Split(line)
        c == CpuTokenAt(t)
    IN  [key |-> CpuContext(IntVal(DropFirstLast(t[c])), t[c + 5]),
         point |-> [timestamp |-> FloatTenths(DropLast(t[c + 2])) + UptimeOffset,
                    latency_ns |-> IntVal(t[c + 7])]]
SaysItself(line) ==
    LET t == Split(line) IN
    /\ \E i \in 1..Len(t) : Bracketed(t[i])
    /\ Len(t) >= CpuTokenAt(t) + 7
    /\ FloatOk(DropLast(t[CpuTokenAt(t) + 2]))
    /\ IntOk(t[CpuTokenAt(t) + 7])

\* C23: every retained point is under the key cpuN_context of the CPU index and
\* the context label of the trace line it was taken from, and a line of a CPU
\* that was not asked for leaves no point, whatever the lines before it.
C23_PointsAreFiledByTheirOwnLine ==
    pc = "done" =>
        \A key \in SeriesKeys :
            \A k \in 1..Len(PointsOf(key)) :
                \E i \in 1..Len(env.trace) :
                    /\ SaysItself(env.trace[i])
                    /\ OwnSample(env.trace[i]).key = key
                    /\ OwnSample(env.trace[i]).point = PointsOf(key)[k]

=============================================================================
